---- MODULE Spec2Model ----
(***************************************************************************)
(* Model of sage/modular/modform/ambient_g1.py: the ambient spaces of      *)
(* modular forms for Gamma_H(N) and Gamma_1(N) over QQ.  One ambient space *)
(* instance is modelled; its two cached submodule getters and its two      *)
(* operator-matrix methods are the actions.  The submodule classes, the    *)
(* matrices and cached_method live in other files of the library and are   *)
(* modelled as an environment.                                             *)
(***************************************************************************)
EXTENDS Integers, Sequences, FiniteSets, TLC

(* ---------------- bounds ---------------- *)
MaxLevel == 3
MaxWeight == 2
MaxIndex == 2
MaxDim == 2
MaxObjs == 4

(* ---------------- environment: names of the library ---------------- *)
Errors == {"ValueError", "NotImplementedError"}
Outcomes == {"ok"} \cup Errors

NoObj == [cls |-> "None"]
NoMatrix == [nr |-> -1, nc |-> -1, e |-> <<>>]

VARIABLES
  M,        \* the ambient space: class, group, weight, base ring, eis_only
  cache,    \* the two cached_method cells of the instance: cusp, eis
  dims,     \* environment: dimensions of the two submodules of M
  nextId,   \* identity of the next object a submodule constructor builds
  built,    \* number of successful constructions per cell
  first,    \* the object each getter returned the first time it succeeded
  call      \* the last call: operation, argument, result, what happened in it

vars == <<M, cache, dims, nextId, built, first, call>>

(* ---------------- accessors inherited from the library ---------------- *)
level(self) == self.group.level

weight(self) == self.weight

QQ == "QQ"

Gamma1(N) == [type |-> "Gamma1", level |-> N]

GammaH(N) == [type |-> "GammaH", level |-> N]

\* ambient.ModularFormsAmbient.__init__(self, group, weight, QQ, eis_only)
ModularFormsAmbient_init(cls, group, wt, base_ring, eis_only) ==
  [cls |-> cls, group |-> group, weight |-> wt, base_ring |-> base_ring,
   eis_only |-> eis_only]

ModularFormsAmbient_gH_Q_init(group, wt, eis_only) ==
  ModularFormsAmbient_init("ModularFormsAmbient_gH_Q", group, wt, QQ, eis_only)

ModularFormsAmbient_g1_Q_init(lev, wt, eis_only) ==
  ModularFormsAmbient_init("ModularFormsAmbient_g1_Q", Gamma1(lev), wt, QQ, eis_only)

(* ---------------- submodule constructors (library) ---------------- *)
\* A constructor either builds a fresh object owned by `owner' or raises.
Construct(kind, owner, id, outcome) ==
  IF outcome = "ok"
    THEN [ok |-> TRUE, val |-> [cls |-> kind, ambient |-> owner, id |-> id], err |-> "none"]
    ELSE [ok |-> FALSE, val |-> NoObj, err |-> outcome]

(* ---------------- the bodies of the four getters ---------------- *)
\* the weight tested before the level
gH_cuspidal_body_weight_first(self, id, outcome) ==
  IF weight(self) = 1
    THEN Construct("CuspidalSubmodule_wt1_gH", self, id, outcome)
    ELSE IF level(self) = 1
      THEN Construct("CuspidalSubmodule_level1_Q", self, id, outcome)
      ELSE Construct("CuspidalSubmodule_gH_Q", self, id, outcome)

gH_cuspidal_body(self, id, outcome) ==
  IF level(self) = 1
    THEN Construct("CuspidalSubmodule_level1_Q", self, id, outcome)
    ELSE IF weight(self) = 1
      THEN Construct("CuspidalSubmodule_wt1_gH", self, id, outcome)
      ELSE Construct("CuspidalSubmodule_gH_Q", self, id, outcome)

gH_eisenstein_body(self, id, outcome) ==
  Construct("EisensteinSubmodule_gH_Q", self, id, outcome)

\* the weight-1 branch left out
g1_cuspidal_body_no_weight1(self, id, outcome) ==
  IF level(self) = 1
    THEN Construct("CuspidalSubmodule_level1_Q", self, id, outcome)
    ELSE Construct("CuspidalSubmodule_g1_Q", self, id, outcome)

g1_cuspidal_body(self, id, outcome) ==
  IF level(self) = 1
    THEN Construct("CuspidalSubmodule_level1_Q", self, id, outcome)
    ELSE IF weight(self) = 1
      THEN Construct("CuspidalSubmodule_wt1_gH", self, id, outcome)
      ELSE Construct("CuspidalSubmodule_g1_Q", self, id, outcome)

\* the override left out: the inherited body
g1_eisenstein_body_inherited(self, id, outcome) ==
  Construct("EisensteinSubmodule_gH_Q", self, id, outcome)

g1_eisenstein_body(self, id, outcome) ==
  Construct("EisensteinSubmodule_g1_Q", self, id, outcome)

(* ---------------- cached_method (library) ---------------- *)
\* st is the mutable part of the instance together with the bookkeeping of
\* the current call: [self, cache, nextId, built, first, tried, raised,
\* failed, snap].
\* A filled cell is returned as it is; an empty cell runs the body, and only
\* a body that returns normally fills the cell.  An exception passes through;
\* `failed' names the cell and `snap' keeps the cells as the failing
\* construction found them.
cached_method(st, cell, r) ==
  IF st.cache[cell] # NoObj
    THEN [st |-> [st EXCEPT !.first[cell] =
                     IF @ = NoObj THEN st.cache[cell] ELSE @],
          ok |-> TRUE, val |-> st.cache[cell], err |-> "none"]
    ELSE IF r.ok
      THEN [st |-> [st EXCEPT !.cache[cell] = r.val,
                              !.nextId = @ + 1,
                              !.built[cell] = @ + 1,
                              !.first[cell] = IF @ = NoObj THEN r.val ELSE @,
                              !.tried = Append(@, cell)],
            ok |-> TRUE, val |-> r.val, err |-> "none"]
      ELSE [st |-> [st EXCEPT !.tried = Append(@, cell),
                              !.raised = Append(@, r.err),
                              !.failed = cell,
                              !.snap = st.cache],
            ok |-> FALSE, val |-> NoObj, err |-> r.err]

(* ---------------- the getters, with method resolution ---------------- *)
\* the method without @cached_method: every call runs the body
gH_cuspidal_submodule_uncached(st, self, outcome) ==
  LET r == gH_cuspidal_body(self, st.nextId, outcome) IN
  IF r.ok
    THEN [st |-> [st EXCEPT !.nextId = @ + 1,
                            !.built.cusp = @ + 1,
                            !.first.cusp = IF @ = NoObj THEN r.val ELSE @,
                            !.tried = Append(@, "cusp")],
          ok |-> TRUE, val |-> r.val, err |-> "none"]
    ELSE [st |-> [st EXCEPT !.tried = Append(@, "cusp"),
                            !.raised = Append(@, r.err),
                            !.failed = "cusp",
                            !.snap = st.cache],
          ok |-> FALSE, val |-> NoObj, err |-> r.err]

gH_cuspidal_submodule(st, self, outcome) ==
  cached_method(st, "cusp", gH_cuspidal_body(self, st.nextId, outcome))

\* the method marks the space as Eisenstein-only
gH_eisenstein_submodule_marking(st, self, outcome) ==
  LET r == cached_method(st, "eis", gH_eisenstein_body(self, st.nextId, outcome)) IN
  [r EXCEPT !.st.self.eis_only = TRUE]

\* the method keeps a placeholder in its cell when the constructor raises
gH_eisenstein_submodule_caching_failure(st, self, outcome) ==
  LET r == cached_method(st, "eis", gH_eisenstein_body(self, st.nextId, outcome)) IN
  IF r.ok THEN r
  ELSE [r EXCEPT !.st.cache.eis =
          [cls |-> "EisensteinSubmodule_gH_Q", ambient |-> self, id |-> -1]]

gH_eisenstein_submodule(st, self, outcome) ==
  cached_method(st, "eis", gH_eisenstein_body(self, st.nextId, outcome))

g1_cuspidal_submodule(st, self, outcome) ==
  cached_method(st, "cusp", g1_cuspidal_body(self, st.nextId, outcome))

g1_eisenstein_submodule(st, self, outcome) ==
  cached_method(st, "eis", g1_eisenstein_body(self, st.nextId, outcome))

\* self.cuspidal_submodule(): the subclass overrides the method
cuspidal_submodule(st, self, outcome) ==
  IF self.cls = "ModularFormsAmbient_g1_Q"
    THEN g1_cuspidal_submodule(st, self, outcome)
    ELSE gH_cuspidal_submodule(st, self, outcome)

eisenstein_submodule(st, self, outcome) ==
  IF self.cls = "ModularFormsAmbient_g1_Q"
    THEN g1_eisenstein_submodule(st, self, outcome)
    ELSE gH_eisenstein_submodule(st, self, outcome)

(* ---------------- matrices (library) ---------------- *)
CuspKinds ==
  {"CuspidalSubmodule_level1_Q", "CuspidalSubmodule_wt1_gH",
   "CuspidalSubmodule_gH_Q", "CuspidalSubmodule_g1_Q"}

EisKinds == {"EisensteinSubmodule_gH_Q", "EisensteinSubmodule_g1_Q"}

KindCode(kind) ==
  CASE kind = "CuspidalSubmodule_level1_Q" -> 0
    [] kind = "CuspidalSubmodule_wt1_gH" -> 1
    [] kind = "CuspidalSubmodule_gH_Q" -> 2
    [] kind = "CuspidalSubmodule_g1_Q" -> 3
    [] kind = "EisensteinSubmodule_gH_Q" -> 4
    [] kind = "EisensteinSubmodule_g1_Q" -> 5

\* dimension of a submodule: a fact of the library, fixed per ambient space
dimension(S) == IF S.cls \in CuspKinds THEN dims.cusp ELSE dims.eis

\* The entry (i, j) of the matrix of operator `op' with index x on submodule S.
\* The value names the submodule class, the operator, the index and the
\* position, and is never zero.
OperatorEntry(S, op, x, i, j) ==
  1 + KindCode(S.cls)
    + 6 * ((IF op = "T" THEN 0 ELSE 1)
           + 2 * (x + (MaxIndex + 1) * ((i - 1) + MaxDim * (j - 1))))

OperatorMatrix(S, op, x) ==
  [nr |-> dimension(S), nc |-> dimension(S),
   e |-> [p \in (1..dimension(S)) \X (1..dimension(S)) |->
            OperatorEntry(S, op, x, p[1], p[2])]]

\* S.hecke_matrix(n): the matrix, or an exception of the library
hecke_matrix(S, n, outcome) ==
  IF outcome = "ok"
    THEN [ok |-> TRUE, mat |-> OperatorMatrix(S, "T", n), err |-> "none"]
    ELSE [ok |-> FALSE, mat |-> NoMatrix, err |-> outcome]

\* S.diamond_bracket_matrix(d)
diamond_bracket_matrix(S, d, outcome) ==
  IF outcome = "ok"
    THEN [ok |-> TRUE, mat |-> OperatorMatrix(S, "D", d), err |-> "none"]
    ELSE [ok |-> FALSE, mat |-> NoMatrix, err |-> outcome]

\* A.block_sum(B): A in the top-left corner, B in the bottom-right, zero elsewhere
block_sum(A, B) ==
  [nr |-> A.nr + B.nr, nc |-> A.nc + B.nc,
   e |-> [p \in (1..(A.nr + B.nr)) \X (1..(A.nc + B.nc)) |->
            IF p[1] <= A.nr /\ p[2] <= A.nc THEN A.e[p]
            ELSE IF p[1] > A.nr /\ p[2] > A.nc
              THEN B.e[<<p[1] - A.nr, p[2] - A.nc>>]
              ELSE 0]]

(* ---------------- the two operator-matrix methods ---------------- *)
\* an exception leaves the method: no matrix is returned
Fail(st, err) == [st |-> st, ok |-> FALSE, mat |-> NoMatrix, err |-> err]

\* an exception raised by a matrix method of a submodule
Raised(st, err) == [st EXCEPT !.raised = Append(@, err)]

\* oc: the outcomes of the four library calls, in the order Python makes them
\* the second block taken from the Hecke operator
_compute_diamond_matrix_hecke_copy(st, self, d, oc) ==
  LET c == cuspidal_submodule(st, self, oc[1]) IN
  IF ~c.ok THEN Fail(c.st, c.err) ELSE
  LET a == diamond_bracket_matrix(c.val, d, oc[2]) IN
  IF ~a.ok THEN Fail(Raised(c.st, a.err), a.err) ELSE
  LET e == eisenstein_submodule(c.st, self, oc[3]) IN
  IF ~e.ok THEN Fail(e.st, e.err) ELSE
  LET b == hecke_matrix(e.val, d, oc[4]) IN
  IF ~b.ok THEN Fail(Raised(e.st, b.err), b.err) ELSE
  [st |-> e.st, ok |-> TRUE, mat |-> block_sum(a.mat, b.mat), err |-> "none"]

_compute_diamond_matrix(st, self, d, oc) ==
  LET c == cuspidal_submodule(st, self, oc[1]) IN
  IF ~c.ok THEN Fail(c.st, c.err) ELSE
  LET a == diamond_bracket_matrix(c.val, d, oc[2]) IN
  IF ~a.ok THEN Fail(Raised(c.st, a.err), a.err) ELSE
  LET e == eisenstein_submodule(c.st, self, oc[3]) IN
  IF ~e.ok THEN Fail(e.st, e.err) ELSE
  LET b == diamond_bracket_matrix(e.val, d, oc[4]) IN
  IF ~b.ok THEN Fail(Raised(e.st, b.err), b.err) ELSE
  [st |-> e.st, ok |-> TRUE, mat |-> block_sum(a.mat, b.mat), err |-> "none"]

\* the Eisenstein block first
_compute_hecke_matrix_swapped(st, self, n, oc) ==
  LET c == cuspidal_submodule(st, self, oc[1]) IN
  IF ~c.ok THEN Fail(c.st, c.err) ELSE
  LET a == hecke_matrix(c.val, n, oc[2]) IN
  IF ~a.ok THEN Fail(Raised(c.st, a.err), a.err) ELSE
  LET e == eisenstein_submodule(c.st, self, oc[3]) IN
  IF ~e.ok THEN Fail(e.st, e.err) ELSE
  LET b == hecke_matrix(e.val, n, oc[4]) IN
  IF ~b.ok THEN Fail(Raised(e.st, b.err), b.err) ELSE
  [st |-> e.st, ok |-> TRUE, mat |-> block_sum(b.mat, a.mat), err |-> "none"]

\* a failure of the Eisenstein part is caught and the cuspidal block returned
_compute_hecke_matrix_recovering(st, self, n, oc) ==
  LET c == cuspidal_submodule(st, self, oc[1]) IN
  IF ~c.ok THEN Fail(c.st, c.err) ELSE
  LET a == hecke_matrix(c.val, n, oc[2]) IN
  IF ~a.ok THEN Fail(Raised(c.st, a.err), a.err) ELSE
  LET e == eisenstein_submodule(c.st, self, oc[3]) IN
  IF ~e.ok THEN [st |-> e.st, ok |-> TRUE, mat |-> a.mat, err |-> "none"] ELSE
  LET b == hecke_matrix(e.val, n, oc[4]) IN
  IF ~b.ok
    THEN [st |-> Raised(e.st, b.err), ok |-> TRUE, mat |-> a.mat, err |-> "none"]
    ELSE
  [st |-> e.st, ok |-> TRUE, mat |-> block_sum(a.mat, b.mat), err |-> "none"]

_compute_hecke_matrix(st, self, n, oc) ==
  LET c == cuspidal_submodule(st, self, oc[1]) IN
  IF ~c.ok THEN Fail(c.st, c.err) ELSE
  LET a == hecke_matrix(c.val, n, oc[2]) IN
  IF ~a.ok THEN Fail(Raised(c.st, a.err), a.err) ELSE
  LET e == eisenstein_submodule(c.st, self, oc[3]) IN
  IF ~e.ok THEN Fail(e.st, e.err) ELSE
  LET b == hecke_matrix(e.val, n, oc[4]) IN
  IF ~b.ok THEN Fail(Raised(e.st, b.err), b.err) ELSE
  [st |-> e.st, ok |-> TRUE, mat |-> block_sum(a.mat, b.mat), err |-> "none"]

(* ---------------- the state machine ---------------- *)
NoCall ==
  [op |-> "none", arg |-> 0, ok |-> TRUE, val |-> NoObj, mat |-> NoMatrix,
   err |-> "none", tried |-> <<>>, raised |-> <<>>, failed |-> "none",
   snap |-> [cusp |-> NoObj, eis |-> NoObj]]

\* the instance as a call finds it
St ==
  [self |-> M, cache |-> cache, nextId |-> nextId, built |-> built,
   first |-> first, tried |-> <<>>, raised |-> <<>>, failed |-> "none",
   snap |-> [cusp |-> NoObj, eis |-> NoObj]]

\* what a call leaves behind
Commit(st, c) ==
  /\ M' = st.self
  /\ cache' = st.cache
  /\ nextId' = st.nextId
  /\ built' = st.built
  /\ first' = st.first
  /\ call' = [c EXCEPT !.tried = st.tried, !.raised = st.raised,
                        !.failed = st.failed, !.snap = st.snap]
  /\ UNCHANGED dims

\* The outcomes of the library calls of one method call: all succeed, or the
\* call number fp raises e.  What follows the first exception is never run.
OutcomeRuns(k) ==
  {[i \in 1..k |-> "ok"]}
    \cup {[i \in 1..k |-> IF i = fp THEN e ELSE "ok"] : fp \in 1..k, e \in Errors}

\* the units modulo N among the indices of the model
Units(N) == {d \in 1..MaxIndex : \E x \in 1..N : (d * x) % N = 1 % N}

Init ==
  /\ \/ \E N \in 1..MaxLevel, k \in 1..MaxWeight, eo \in BOOLEAN :
          M = ModularFormsAmbient_gH_Q_init(GammaH(N), k, eo)
     \/ \E N \in 1..MaxLevel, k \in 1..MaxWeight, eo \in BOOLEAN :
          M = ModularFormsAmbient_g1_Q_init(N, k, eo)
  /\ cache = [cusp |-> NoObj, eis |-> NoObj]
  /\ dims \in [cusp : 0..MaxDim, eis : 0..MaxDim]
  /\ nextId = 0
  /\ built = [cusp |-> 0, eis |-> 0]
  /\ first = [cusp |-> NoObj, eis |-> NoObj]
  /\ call = NoCall

CuspidalSubmodule ==
  \E o \in Outcomes :
    /\ nextId < MaxObjs
    /\ LET r == cuspidal_submodule(St, M, o) IN
       Commit(r.st, [NoCall EXCEPT !.op = "cuspidal_submodule",
                       !.ok = r.ok, !.val = r.val, !.err = r.err])

EisensteinSubmodule ==
  \E o \in Outcomes :
    /\ nextId < MaxObjs
    /\ LET r == eisenstein_submodule(St, M, o) IN
       Commit(r.st, [NoCall EXCEPT !.op = "eisenstein_submodule",
                       !.ok = r.ok, !.val = r.val, !.err = r.err])

ComputeDiamondMatrix ==
  \E d \in Units(level(M)), oc \in OutcomeRuns(4) :
    /\ nextId + 1 < MaxObjs
    /\ LET r == _compute_diamond_matrix(St, M, d, oc) IN
       Commit(r.st, [NoCall EXCEPT !.op = "_compute_diamond_matrix", !.arg = d,
                       !.ok = r.ok, !.mat = r.mat, !.err = r.err])

ComputeHeckeMatrix ==
  \E n \in 1..MaxIndex, oc \in OutcomeRuns(4) :
    /\ nextId + 1 < MaxObjs
    /\ LET r == _compute_hecke_matrix(St, M, n, oc) IN
       Commit(r.st, [NoCall EXCEPT !.op = "_compute_hecke_matrix", !.arg = n,
                       !.ok = r.ok, !.mat = r.mat, !.err = r.err])

Next ==
  \/ CuspidalSubmodule
  \/ EisensteinSubmodule
  \/ ComputeDiamondMatrix
  \/ ComputeHeckeMatrix

Spec == Init /\ [][Next]_vars

(* ---------------- the properties ---------------- *)
IsGH == M.cls = "ModularFormsAmbient_gH_Q"

IsG1 == M.cls = "ModularFormsAmbient_g1_Q"

\* C1: on a Gamma_H space the first cuspidal_submodule() call builds the
\* level-1 class when N = 1 (also when k = 1), else the weight-1 class when
\* k = 1, else the generic Gamma_H class, and builds it with the space as owner.
C1_CuspidalDispatch_gH ==
  (IsGH /\ first.cusp # NoObj) =>
    /\ first.cusp.ambient = M
    /\ (M.group.level = 1 => first.cusp.cls = "CuspidalSubmodule_level1_Q")
    /\ (M.group.level # 1 /\ M.weight = 1 =>
          first.cusp.cls = "CuspidalSubmodule_wt1_gH")
    /\ (M.group.level # 1 /\ M.weight # 1 =>
          first.cusp.cls = "CuspidalSubmodule_gH_Q")

C1_Witness ==
  /\ IsGH /\ M.group.level = 1 /\ M.weight = 1
  /\ call.op = "cuspidal_submodule" /\ call.ok
  /\ call.tried = <<"cusp">>

\* C2: on a Gamma_1 space cuspidal_submodule() builds what the Gamma_H method
\* builds when N = 1 or k = 1, and the Gamma_1 class, never the generic
\* Gamma_H class, when N > 1 and k > 1.
C2_CuspidalDispatch_g1 ==
  (IsG1 /\ first.cusp # NoObj) =>
    LET gh == gH_cuspidal_body(M, first.cusp.id, "ok").val IN
      /\ (M.group.level = 1 =>
            first.cusp = gh /\ first.cusp.cls = "CuspidalSubmodule_level1_Q")
      /\ (M.group.level > 1 /\ M.weight = 1 =>
            first.cusp = gh /\ first.cusp.cls = "CuspidalSubmodule_wt1_gH")
      /\ (M.group.level > 1 /\ M.weight > 1 =>
            /\ first.cusp.cls = "CuspidalSubmodule_g1_Q"
            /\ gh.cls = "CuspidalSubmodule_gH_Q"
            /\ first.cusp.ambient = M)

C2_Witness ==
  /\ IsG1 /\ M.group.level > 1 /\ M.weight > 1
  /\ call.op = "cuspidal_submodule" /\ call.ok
  /\ call.val.cls = "CuspidalSubmodule_g1_Q"

\* C3: eisenstein_submodule() has no case analysis: a Gamma_H space always
\* builds EisensteinSubmodule_gH_Q and a Gamma_1 space always builds
\* EisensteinSubmodule_g1_Q, for every level and weight, with the space as owner.
C3_EisensteinNoDispatch ==
  (first.eis # NoObj) =>
    /\ first.eis.ambient = M
    /\ (IsGH => first.eis.cls = "EisensteinSubmodule_gH_Q")
    /\ (IsG1 => first.eis.cls = "EisensteinSubmodule_g1_Q")

C3_Witness ==
  /\ IsG1 /\ M.group.level = 1 /\ M.weight = 1
  /\ call.op = "eisenstein_submodule" /\ call.ok
  /\ call.val.cls = "EisensteinSubmodule_g1_Q"

\* C4: every successful cuspidal_submodule() call returns the object the first
\* successful call returned, likewise eisenstein_submodule(); each submodule is
\* built at most once and a filled cell is never emptied or replaced.
C4_CacheStable ==
  /\ cache = first
  /\ built.cusp <= 1 /\ built.eis <= 1
  /\ (call.op = "cuspidal_submodule" /\ call.ok => call.val = first.cusp)
  /\ (call.op = "eisenstein_submodule" /\ call.ok => call.val = first.eis)

\* a getter answered from its cell, after the matrix methods filled both cells
C4_Witness ==
  /\ call.op = "cuspidal_submodule" /\ call.ok /\ call.tried = <<>>
  /\ built.cusp = 1 /\ built.eis = 1

\* The block-diagonal matrix with A first and B second, entry by entry.
IsBlockDiagonal(R, A, B) ==
  /\ R.nr = A.nr + B.nr
  /\ R.nc = A.nc + B.nc
  /\ \A i \in 1..R.nr, j \in 1..R.nc :
       R.e[<<i, j>>] =
         IF i <= A.nr /\ j <= A.nc THEN A.e[<<i, j>>]
         ELSE IF i > A.nr /\ j > A.nc THEN B.e[<<i - A.nr, j - A.nc>>]
         ELSE 0

\* on a Gamma_1 space the cells hold the submodules of the Gamma_1 methods
OwnSubmodules ==
  IsG1 =>
    /\ cache.eis.cls = "EisensteinSubmodule_g1_Q"
    /\ (M.group.level > 1 /\ M.weight > 1 =>
          cache.cusp.cls = "CuspidalSubmodule_g1_Q")

\* C5: _compute_hecke_matrix(n) is the square block-diagonal matrix of size
\* c + e with the cuspidal submodule's hecke_matrix(n) top-left, the Eisenstein
\* submodule's hecke_matrix(n) bottom-right and zero elsewhere; on a Gamma_1
\* space the blocks are those of the Gamma_1 submodules.
C5_HeckeBlockSum ==
  (call.op = "_compute_hecke_matrix" /\ call.ok) =>
    /\ cache.cusp # NoObj /\ cache.eis # NoObj
    /\ IsBlockDiagonal(call.mat,
                       OperatorMatrix(cache.cusp, "T", call.arg),
                       OperatorMatrix(cache.eis, "T", call.arg))
    /\ call.mat.nr = dims.cusp + dims.eis
    /\ OwnSubmodules

C5_Witness ==
  /\ call.op = "_compute_hecke_matrix" /\ call.ok /\ call.arg = 2
  /\ IsG1 /\ M.group.level > 1 /\ M.weight > 1
  /\ dims.cusp = 1 /\ dims.eis = 2

\* C6: _compute_diamond_matrix(d), d a unit modulo the level, is the
\* block-diagonal matrix with the cuspidal submodule's diamond_bracket_matrix(d)
\* top-left, the Eisenstein submodule's diamond_bracket_matrix(d) bottom-right
\* and zero elsewhere, both blocks for the d passed in.
C6_DiamondBlockSum ==
  (call.op = "_compute_diamond_matrix" /\ call.ok) =>
    /\ cache.cusp # NoObj /\ cache.eis # NoObj
    /\ IsBlockDiagonal(call.mat,
                       OperatorMatrix(cache.cusp, "D", call.arg),
                       OperatorMatrix(cache.eis, "D", call.arg))
    /\ OwnSubmodules

C6_Witness ==
  /\ call.op = "_compute_diamond_matrix" /\ call.ok /\ call.arg = 2
  /\ M.group.level = 3
  /\ dims.cusp = 2 /\ dims.eis = 1

\* C8: an exception of a submodule constructor or of a submodule's matrix
\* method leaves the call as it was raised: the call fails with that very
\* error, nothing more is tried after it, no construction is tried twice, and
\* no object and no matrix is returned; a call fails only if the library raised.
C8_ErrorsPropagate ==
  /\ (call.raised # <<>> =>
        /\ ~call.ok
        /\ Len(call.raised) = 1
        /\ call.err = call.raised[1]
        /\ call.val = NoObj
        /\ call.mat = NoMatrix)
  /\ (~call.ok => call.raised # <<>> /\ call.err \in Errors)
  /\ Len(call.tried) <= 2
  /\ (Len(call.tried) = 2 => call.tried = <<"cusp", "eis">>)

\* both submodules were built in the call and then the second matrix failed
C8_Witness ==
  /\ call.op = "_compute_hecke_matrix" /\ ~call.ok
  /\ call.err = "NotImplementedError"
  /\ call.tried = <<"cusp", "eis">> /\ call.failed = "none"

\* C9: no call changes the identity of the ambient space (class, group,
\* weight, base ring QQ, eis_only) or the library's facts about it; a call
\* changes only the two cells.
C9_IdentityFrame ==
  [][M' = M /\ M'.base_ring = QQ /\ dims' = dims]_vars

C9_Witness ==
  /\ cache.cusp # NoObj /\ cache.eis # NoObj
  /\ call.op = "_compute_diamond_matrix" /\ ~call.ok

\* C10: a failed construction is not memoized: its cell stays empty, the other
\* cell is as the failing construction found it, and a getter called on an
\* empty cell tries the construction (again).
C10_FailureNotCached ==
  [][/\ (call'.failed = "cusp" =>
           /\ cache.cusp = NoObj /\ cache'.cusp = NoObj
           /\ cache'.eis = call'.snap.eis
           /\ cache'.eis = cache.eis)
     /\ (call'.failed = "eis" =>
           /\ cache.eis = NoObj /\ cache'.eis = NoObj
           /\ cache'.cusp = call'.snap.cusp
           /\ (cache.cusp # NoObj => cache'.cusp = cache.cusp))
     /\ (call'.op = "cuspidal_submodule" /\ cache.cusp = NoObj =>
           call'.tried = <<"cusp">>)
     /\ (call'.op = "eisenstein_submodule" /\ cache.eis = NoObj =>
           call'.tried = <<"eis">>)
     /\ (call'.op \in {"_compute_hecke_matrix", "_compute_diamond_matrix"}
           /\ cache.cusp = NoObj => call'.tried # <<>> /\ call'.tried[1] = "cusp")
    ]_vars

\* the Eisenstein construction failed inside a matrix method that found the
\* cuspidal cell filled
C10_Witness ==
  /\ call.op = "_compute_hecke_matrix" /\ call.failed = "eis"
  /\ cache.cusp # NoObj /\ cache.eis = NoObj
  /\ call.tried = <<"eis">>

====
